---- MODULE Spec2Model ----
(***************************************************************************)
(* A model of deploy.py: the release pipeline                              *)
(*   get_app -> get_rename_file_name -> upload_to_dropbox -> get_changes   *)
(*   -> get_message -> send_message_telegram                               *)
(* and of the text functions it is built from.                             *)
(*                                                                         *)
(* A Python str is a sequence of one-character strings; None is the        *)
(* one-element sequence <<"None">>, which no str equals.                   *)
(*                                                                         *)
(* Environment: every HTTP request gets a response with a status code.     *)
(* The manifest, the changelog and the template may be missing or          *)
(* malformed, and the artifact the manifest names may be unreadable.       *)
(***************************************************************************)
EXTENDS Integers, Sequences, FiniteSets, TLC

VARIABLES
    pc,               \* position in __main__ (or in a function harness)
    options,          \* the parsed command line
    json_data,        \* the manifest as get_app read it
    app_version,
    app_file,
    target_app_file,
    requests,         \* every HTTP request issued so far, with its response status
    share_url,        \* r.json()['url'] of the share response
    file_url,
    change_log,       \* the changelog file as get_changes read it
    latest_changes,
    template,         \* the template file as get_message read it
    message,
    started,          \* the stages entered so far, in order
    stdout,           \* the lines print() wrote, without their arguments
    exit_code

vars == <<pc, options, json_data, app_version, app_file, target_app_file,
          requests, share_url, file_url, change_log, latest_changes,
          template, message, started, stdout, exit_code>>

(***************************************************************************)
(* Bounds of the enumerated inputs.                                        *)
(***************************************************************************)
MaxChangeLen == 6
MaxNameLen == 3
MaxVersionLen == 3
MaxParams == 2
MaxFileLen == 4

(***************************************************************************)
(* Program constants.                                                      *)
(***************************************************************************)
DROPBOX_ERROR_CODE == 1
TEMPLATE_ERROR_CODE == 2
CHANGES_ERROR_CODE == 3
OUTPUT_FILE_PARSING_ERROR == 4
TELEGRAM_ERROR_CODE == 5
\* requests.codes.ok
codes_ok == 200
\* the interpreter's exit status when the script runs to its end
EXIT_SUCCESS == 0
\* the interpreter's exit status when an exception reaches the top level
EXIT_UNCAUGHT == 1

None == <<"None">>
\* exit_code while the process is running
Running == -1

(***************************************************************************)
(* Python str and re operations, as far as deploy.py uses them.            *)
(***************************************************************************)
StrUpTo(A, n) == UNION {[1..k -> A] : k \in 0..n}

UpperChars == <<"A","B","C","D","E","F","G","H","I","J","K","L","M",
                "N","O","P","Q","R","S","T","U","V","W","X","Y","Z">>
LowerChars == <<"a","b","c","d","e","f","g","h","i","j","k","l","m",
                "n","o","p","q","r","s","t","u","v","w","x","y","z">>

IsUpper(c) == \E i \in DOMAIN UpperChars : UpperChars[i] = c

LowerChar(c) ==
    IF IsUpper(c)
    THEN LowerChars[CHOOSE i \in DOMAIN UpperChars : UpperChars[i] = c]
    ELSE c

\* s.lower()
str_lower(s) == [i \in 1..Len(s) |-> LowerChar(s[i])]

\* s.replace(old, new) for one-character old and new
str_replace(s, old, new) == [i \in 1..Len(s) |-> IF s[i] = old THEN new ELSE s[i]]

\* s.replace(old, '') for a one-character old
str_remove(s, old) == SelectSeq(s, LAMBDA c : c # old)

\* s[i:].startswith(sub), i counted from 1
StartsAt(s, i, sub) ==
    /\ i >= 1
    /\ i + Len(sub) - 1 <= Len(s)
    /\ \A k \in 1..Len(sub) : s[i + k - 1] = sub[k]

\* the least index >= i of an occurrence of sub in s, Len(s) + 1 when there is none
RECURSIVE str_find(_, _, _)
str_find(s, sub, i) ==
    IF i > Len(s) THEN Len(s) + 1
    ELSE IF StartsAt(s, i, sub) THEN i
    ELSE str_find(s, sub, i + 1)

\* s.split(sep)
RECURSIVE str_split(_, _)
str_split(s, sep) ==
    LET i == str_find(s, sep, 1) IN
    IF i > Len(s) THEN <<s>>
    ELSE <<SubSeq(s, 1, i - 1)>> \o str_split(SubSeq(s, i + Len(sep), Len(s)), sep)

\* re.sub('^#.*\n?', '', s, flags=re.MULTILINE), scanning from position i
RECURSIVE re_sub_heading(_, _)
re_sub_heading(s, i) ==
    IF i > Len(s) THEN <<>>
    ELSE IF (i = 1 \/ s[i - 1] = "\n") /\ s[i] = "#"
    THEN LET e == str_find(s, <<"\n">>, i) IN re_sub_heading(s, e + 1)
    ELSE <<s[i]>> \o re_sub_heading(s, i + 1)

\* re.sub('dl=.*', 'raw=1', s), scanning from position i
RECURSIVE re_sub_dl(_, _)
re_sub_dl(s, i) ==
    IF i > Len(s) THEN <<>>
    ELSE IF StartsAt(s, i, <<"d", "l", "=">>)
    THEN <<"r", "a", "w", "=", "1">> \o re_sub_dl(s, str_find(s, <<"\n">>, i))
    ELSE <<s[i]>> \o re_sub_dl(s, i + 1)

\* os.path.join(a, b) on a POSIX system
os_path_join(a, b) ==
    IF Len(b) > 0 /\ b[1] = "/" THEN b
    ELSE IF Len(a) = 0 \/ a[Len(a)] = "/" THEN a \o b
    ELSE a \o <<"/">> \o b

(***************************************************************************)
(* The functions of deploy.py.                                             *)
(***************************************************************************)

\* the URL upload_to_dropbox returns after a successful share
rewrite_share_url(url) == re_sub_dl(url, 1)

\* '/{folder}/{file_name}'.format(...)
dropbox_path(folder, file_name) == <<"/">> \o folder \o <<"/">> \o file_name

\* get_rename_file_name without app_name.lower()
get_rename_file_name_mut(app_name, version) ==
    LET ver == str_replace(version, ".", "_")
    IN  str_remove(app_name \o <<"_">> \o ver \o <<".", "a", "p", "k">>, " ")

get_rename_file_name(app_name, version) ==
    LET name == str_lower(app_name)
        ver  == str_replace(version, ".", "_")
    IN  str_remove(name \o <<"_">> \o ver \o <<".", "a", "p", "k">>, " ")

\* get_changes without the [:-1]
get_changes_mut(log) ==
    re_sub_heading(str_split(log, <<"#", "#">>)[1], 1)

get_changes(log) ==
    LET first == str_split(log, <<"#", "#">>)[1]
        cut   == SubSeq(first, 1, Len(first) - 1)
    IN  re_sub_heading(cut, 1)


\* str.splitlines() of a text whose only line break is "\n"
str_splitlines(s) ==
    LET parts == str_split(s, <<"\n">>) IN
    IF Len(parts[Len(parts)]) = 0 THEN SubSeq(parts, 1, Len(parts) - 1) ELSE parts

(***************************************************************************)
(* get_app.  A manifest (json_data) is                                     *)
(*   top          "bad": output.json is missing or is not JSON;            *)
(*                "dict" or "list": the type of the top-level value        *)
(*   has_elements whether a top-level dict has the key 'elements'          *)
(*   elements     the outputFile of each item of json_data['elements']     *)
(*   items        the items of a top-level list; each has at most one      *)
(*                apkInfo and at most one apkData, a record of versionName *)
(*                and outputFile                                           *)
(***************************************************************************)
Unread == [top |-> "unread", has_elements |-> FALSE, elements |-> <<>>, items |-> <<>>]
BadManifest == [top |-> "bad", has_elements |-> FALSE, elements |-> <<>>, items |-> <<>>]
DictManifest(has, elems) ==
    [top |-> "dict", has_elements |-> has, elements |-> elems, items |-> <<>>]
ListManifest(its) ==
    [top |-> "list", has_elements |-> FALSE, elements |-> <<>>, items |-> its]
Apk(v, f) == [versionName |-> v, outputFile |-> f]
Item(info, data) == [apkInfo |-> info, apkData |-> data]

Raised == [result |-> "raise", app_version |-> None, app_file |-> None]
NoneNone == [result |-> "none", app_version |-> None, app_file |-> None]
Returned(v, f) == [result |-> "ok", app_version |-> v, app_file |-> f]

\* the elif chain over json_data[0], 'apkData' tested first
get_app_first_item_mut(app_dir, item) ==
    IF Len(item.apkData) > 0
    THEN Returned(item.apkData[1].versionName,
                  os_path_join(app_dir, item.apkData[1].outputFile))
    ELSE IF Len(item.apkInfo) > 0
    THEN Returned(item.apkInfo[1].versionName,
                  os_path_join(app_dir, item.apkInfo[1].outputFile))
    ELSE NoneNone

\* the elif chain over json_data[0]
get_app_first_item(app_dir, item) ==
    IF Len(item.apkInfo) > 0
    THEN Returned(item.apkInfo[1].versionName,
                  os_path_join(app_dir, item.apkInfo[1].outputFile))
    ELSE IF Len(item.apkData) > 0
    THEN Returned(item.apkData[1].versionName,
                  os_path_join(app_dir, item.apkData[1].outputFile))
    ELSE NoneNone

get_app(app_dir, jd) ==
    IF jd.top = "bad" THEN Raised                         \* open / json.load
    ELSE IF jd.top = "dict" /\ jd.has_elements
    THEN IF Len(jd.elements) = 0 THEN Raised              \* IndexError
         ELSE LET outputFile == jd.elements[1]
                  tokens     == str_split(outputFile, <<"_">>)
              IN  IF Len(tokens) < 2 THEN Raised          \* IndexError
                  ELSE Returned(str_replace(tokens[2], "-", "."),
                                os_path_join(app_dir, outputFile))
    ELSE IF jd.top = "dict" THEN Raised                   \* KeyError: 0
    ELSE IF Len(jd.items) = 0 THEN Raised                 \* IndexError
    ELSE get_app_first_item(app_dir, jd.items[1])

(***************************************************************************)
(* get_message.  A template file is readable or not; its text is a         *)
(* sequence of characters and replacement fields ("{app_name}", ...).      *)
(***************************************************************************)
Fields == {"{app_download_url}", "{change_log}", "{app_name}", "{app_version}"}
IsField(tok) == tok \in Fields \cup {"{other}"}

RECURSIVE str_format(_, _)
str_format(toks, val) ==
    IF Len(toks) = 0 THEN <<>>
    ELSE (IF IsField(toks[1]) THEN val[toks[1]] ELSE <<toks[1]>>)
         \o str_format(Tail(toks), val)

RECURSIVE join_lines(_)
join_lines(lines) ==
    IF Len(lines) = 0 THEN <<>>
    ELSE lines[1] \o <<"\n">> \o join_lines(Tail(lines))

\* None stands for the KeyError str.format() raises on an unknown field
get_message(app_name, version, app_url, changelog, text) ==
    IF \E i \in 1..Len(text) : text[i] = "{other}"
    THEN None
    ELSE LET val == [f \in Fields |->
                        CASE f = "{app_download_url}" -> app_url
                          [] f = "{change_log}" -> changelog
                          [] f = "{app_name}" -> app_name
                          [] f = "{app_version}" -> version]
         IN  join_lines(str_splitlines(str_format(text, val)))

\* the status test left out
response_ok_mut(status) == TRUE

\* r.status_code != requests.codes.ok, negated
response_ok(status) == status = codes_ok

\* send_message_telegram's return value
telegram_sent(status) == status = codes_ok

(***************************************************************************)
(* The exits of __main__ after each call; Running when it goes on.         *)
(***************************************************************************)
\* the exit left out
exit_after_get_app_mut(version, file) == Running

exit_after_get_app(version, file) ==
    IF version = None \/ file = None THEN OUTPUT_FILE_PARSING_ERROR ELSE Running

\* the exit left out
exit_after_upload_mut(url) == Running

exit_after_upload(url) == IF url = None THEN DROPBOX_ERROR_CODE ELSE Running

exit_after_changes(changes) == IF changes = None THEN CHANGES_ERROR_CODE ELSE Running

exit_after_send(sent) == IF ~sent THEN TELEGRAM_ERROR_CODE ELSE EXIT_SUCCESS

(***************************************************************************)
(* Inputs of the pipeline runs.                                            *)
(***************************************************************************)
WowApp == <<"W", "o", "w", "A", "p", "p">>
MyApp == <<"M", "y", " ", "A", "p", "p">>
V100 == <<"1", ".", "0", ".", "0">>
ReleaseDir == <<"o", "u", "t">>
DropboxFolder == <<"a", "p", "p", "s">>
ElementsFile == <<"a", "p", "p", "_", "1", ".", "2", ".", "3", "-", "b", "e", "t", "a", "_", "r", "e", "l", "e", "a", "s", "e", ".", "a", "p", "k">>
ApkFile == <<"a", "p", "p", "-", "r", "e", "l", "e", "a", "s", "e", ".", "a", "p", "k">>

Statuses == {200, 201, 404, 500}

AppNames == {WowApp, MyApp}

Manifests ==
    { BadManifest,
      DictManifest(FALSE, <<>>),
      DictManifest(TRUE, <<>>),
      DictManifest(TRUE, <<ApkFile>>),
      DictManifest(TRUE, <<ElementsFile>>),
      ListManifest(<<>>),
      ListManifest(<<Item(<<>>, <<>>)>>),
      ListManifest(<<Item(<<Apk(V100, ApkFile)>>, <<>>)>>),
      ListManifest(<<Item(<<>>, <<Apk(V100, ApkFile)>>)>>) }

ShareUrls ==
    { <<"h", "/", "s", "/", "a", "?", "d", "l", "=", "0">>,
      <<"h", "/", "s", "/", "a", "?", "d", "l", "=", "0", "&", "s", "t", "=", "x">> }

UnreadFile == [state |-> "unread", text |-> <<>>]
MissingFile == [state |-> "missing", text |-> <<>>]
ReadFile(text) == [state |-> "read", text |-> text]

ExampleChangelog == <<"#", " ", "T", "i", "t", "l", "e", "\n", "#", "#", " ", "v", "1", ".", "0", "\n", "F", "i", "x", " ", "A", "\n", "F", "i", "x", " ", "B", "\n", "#", "#", "v", "0", ".", "9", "\n", "O", "l", "d", "\n">>

ChangelogFiles ==
    { MissingFile,
      ReadFile(ExampleChangelog),
      ReadFile(<<"#", " ", "T", "\n", "-", " ", "a", "\n", "\n", "#", "#", "0", ".", "9", "\n", "-", " ", "b", "\n">>) }

TemplateFiles ==
    { MissingFile,
      ReadFile(<<"{app_name}", " ", "{app_version}", "\n", "{change_log}", "\n", "{app_download_url}">>),
      ReadFile(<<"{app_name}", " ", "{other}", "\n">>) }

Request(kind, target, status) == [kind |-> kind, target |-> target, status |-> status]

(***************************************************************************)
(* __main__, one action per call it makes; upload_to_dropbox is one action *)
(* per request, since each request is a visible effect of its own.         *)
(***************************************************************************)
Init ==
    /\ pc = "locate"
    /\ options \in [app_name : AppNames, release_dir : {ReleaseDir},
                    dropbox_folder : {DropboxFolder}]
    /\ json_data = Unread
    /\ app_version = None
    /\ app_file = None
    /\ target_app_file = None
    /\ requests = <<>>
    /\ share_url = None
    /\ file_url = None
    /\ change_log = UnreadFile
    /\ latest_changes = None
    /\ template = UnreadFile
    /\ message = None
    /\ started = <<>>
    /\ stdout = <<>>
    /\ exit_code = Running

\* exit(code), or go on at `next` when code is Running
ExitOrGo(code, next) ==
    IF code = Running
    THEN pc' = next /\ exit_code' = Running
    ELSE pc' = (IF code = EXIT_SUCCESS THEN "done" ELSE "aborted") /\ exit_code' = code

\* an exception reaches the top level
Uncaught == pc' = "aborted" /\ exit_code' = EXIT_UNCAUGHT

\* app_version, app_file = get_app(options.release_dir)
Locate(manifests) ==
    /\ pc = "locate"
    /\ \E jd \in manifests :
         LET r == get_app(options.release_dir, jd) IN
         /\ json_data' = jd
         /\ app_version' = r.app_version
         /\ app_file' = r.app_file
         /\ stdout' = (IF r.result = "none"
                        THEN Append(stdout, "Failed: parsing json in output file")
                        ELSE stdout)
         /\ IF r.result = "raise" THEN Uncaught
            ELSE ExitOrGo(exit_after_get_app(r.app_version, r.app_file), "rename")
    /\ started' = Append(started, "LOCATE")
    /\ UNCHANGED <<options, target_app_file, requests, share_url, file_url,
                   change_log, latest_changes, template, message>>

\* target_app_file = get_rename_file_name(options.app_name, app_version)
Rename ==
    /\ pc = "rename"
    /\ target_app_file' = get_rename_file_name(options.app_name, app_version)
    /\ pc' = "delete"
    /\ started' = Append(started, "RENAME")
    /\ UNCHANGED <<options, json_data, app_version, app_file, requests, share_url,
                   file_url, change_log, latest_changes, template, message, stdout,
                   exit_code>>

\* upload_to_dropbox: requests.post(DROPBOX_DELETE_URL, ...), result dropped
DropboxDelete ==
    /\ pc = "delete"
    /\ \E status \in Statuses :
         requests' = Append(requests,
             Request("delete", dropbox_path(options.dropbox_folder, target_app_file), status))
    /\ pc' = "upload"
    /\ started' = Append(started, "UPLOAD")
    /\ UNCHANGED <<options, json_data, app_version, app_file, target_app_file, share_url,
                   file_url, change_log, latest_changes, template, message, stdout,
                   exit_code>>

\* upload_to_dropbox: open(file, 'rb') and requests.post(DROPBOX_UPLOAD_URL, ...);
\* None on a failure, and __main__'s test of it
DropboxUpload ==
    /\ pc = "upload"
    /\ \E readable \in BOOLEAN, status \in Statuses :
         IF ~readable
         THEN /\ requests' = requests
              /\ stdout' = stdout
              /\ Uncaught
         ELSE /\ requests' = Append(requests,
                    Request("upload", dropbox_path(options.dropbox_folder, target_app_file),
                            status))
              /\ IF response_ok(status)
                 THEN stdout' = stdout /\ pc' = "share" /\ exit_code' = exit_code
                 ELSE /\ stdout' = Append(stdout, "Upload failed")
                      /\ ExitOrGo(exit_after_upload(None), "changelog")
    /\ UNCHANGED <<options, json_data, app_version, app_file, target_app_file, share_url,
                   file_url, change_log, latest_changes, template, message, started>>

\* upload_to_dropbox: requests.post(DROPBOX_SHARE_URL, ...), the return value,
\* and __main__'s test of it
DropboxShare(urls) ==
    /\ pc = "share"
    /\ \E status \in Statuses, url \in urls :
         LET ret == IF response_ok(status) THEN rewrite_share_url(url) ELSE None IN
         /\ requests' = Append(requests,
               Request("share", dropbox_path(options.dropbox_folder, target_app_file), status))
         /\ share_url' = (IF response_ok(status) THEN url ELSE None)
         /\ file_url' = ret
         /\ stdout' = (IF response_ok(status) THEN stdout
                        ELSE Append(stdout, "Get url failed"))
         /\ ExitOrGo(exit_after_upload(ret), "changelog")
    /\ UNCHANGED <<options, json_data, app_version, app_file, target_app_file,
                   change_log, latest_changes, template, message, started>>

\* latest_changes = get_changes(options.changelog_file)
Changelog(files) ==
    /\ pc = "changelog"
    /\ \E file \in files :
         /\ change_log' = file
         /\ IF file.state = "missing"
            THEN latest_changes' = latest_changes /\ Uncaught
            ELSE LET ret == get_changes(file.text) IN
                 /\ latest_changes' = ret
                 /\ ExitOrGo(exit_after_changes(ret), "render")
    /\ started' = Append(started, "CHANGELOG")
    /\ UNCHANGED <<options, json_data, app_version, app_file, target_app_file, requests,
                   share_url, file_url, template, message, stdout>>

\* message = get_message(...)
Render ==
    /\ pc = "render"
    /\ \E file \in TemplateFiles :
         LET ret == IF file.state = "missing" THEN None
                    ELSE get_message(options.app_name, app_version, file_url,
                                     latest_changes, file.text)
         IN
         /\ template' = file
         /\ message' = ret
         /\ IF ret = None THEN Uncaught ELSE pc' = "notify" /\ exit_code' = exit_code
    /\ started' = Append(started, "RENDER")
    /\ UNCHANGED <<options, json_data, app_version, app_file, target_app_file, requests,
                   share_url, file_url, change_log, latest_changes, stdout>>

\* send_message_telegram(...), and the end of the script
Notify ==
    /\ pc = "notify"
    /\ \E status \in Statuses :
         /\ requests' = Append(requests, Request("telegram", message, status))
         /\ ExitOrGo(exit_after_send(telegram_sent(status)), "done")
    /\ started' = Append(started, "NOTIFY")
    /\ UNCHANGED <<options, json_data, app_version, app_file, target_app_file, share_url,
                   file_url, change_log, latest_changes, template, message, stdout>>

Next ==
    \/ Locate(Manifests)
    \/ Rename
    \/ DropboxDelete
    \/ DropboxUpload
    \/ DropboxShare(ShareUrls)
    \/ Changelog(ChangelogFiles)
    \/ Render
    \/ Notify

Spec == Init /\ [][Next]_vars

(***************************************************************************)
(* Properties of the pipeline, checked under Spec.                         *)
(***************************************************************************)
StageOrder == <<"LOCATE", "RENAME", "UPLOAD", "CHANGELOG", "RENDER", "NOTIFY">>

StorageKinds == {"delete", "upload", "share"}

Is2xx(status) == status \in 200..299

Exited == exit_code # Running

NotifySent == \E i \in DOMAIN requests : requests[i].kind = "telegram"

\* a line naming a failed storage request was printed
UploadFailureReported ==
    \E i \in DOMAIN stdout : stdout[i] \in {"Upload failed", "Get url failed"}

\* the stage produced what the next stage needs
Succeeded(stage) ==
    CASE stage = "LOCATE" -> app_version # None /\ app_file # None
      [] stage = "RENAME" -> target_app_file # None
      [] stage = "UPLOAD" -> file_url # None
      [] stage = "CHANGELOG" -> latest_changes # None
      [] stage = "RENDER" -> message # None
      [] stage = "NOTIFY" ->
            \E i \in DOMAIN requests :
                requests[i].kind = "telegram" /\ requests[i].status = codes_ok

LastStage == started[Len(started)]

\* the last stage entered has not succeeded, and the run is not inside it
LastStageFailed ==
    /\ Len(started) > 0
    /\ ~Succeeded(LastStage)
    /\ pc \notin {"upload", "share"}

StorageRequests == SelectSeq(requests, LAMBDA r : r.kind \in StorageKinds)

IsPrefix(s, t) == Len(s) <= Len(t) /\ \A i \in 1..Len(s) : s[i] = t[i]

C1_Inv ==
    /\ IsPrefix(started, StageOrder)
    /\ \A i \in 1..(Len(started) - 1) : Succeeded(started[i])
    /\ LastStageFailed <=> pc = "aborted"
    /\ pc = "done" => Len(started) = Len(StageOrder)
    /\ Exited <=> pc \in {"done", "aborted"}

C1_Step ==
    /\ pc \notin {"done", "aborted"}
    /\ IsPrefix(started, started')
    /\ Len(started') <= Len(started) + 1
    /\ IsPrefix(requests, requests')

\* C1: the stages are entered in the order LOCATE, RENAME, UPLOAD, CHANGELOG,
\* RENDER, NOTIFY, each only after every earlier one succeeded; a failed stage
\* leaves the run aborted, and an aborted (or finished) run takes no further
\* step: no later stage, no later request, no way back, no retry.
C1_StagesInOrder == []C1_Inv /\ [][C1_Step]_vars

\* a run aborted at CHANGELOG, after the three storage requests
C1_Witness ==
    /\ pc = "aborted"
    /\ started = SubSeq(StageOrder, 1, 4)
    /\ Len(requests) = 3

FailedRequest(kinds) ==
    \E i \in DOMAIN requests :
        requests[i].kind \in kinds /\ ~Is2xx(requests[i].status)

\* C2 as stated: a non-2xx response to the delete, the upload or the share
\* request leaves no download URL and sends no notify request, and the run
\* ends with the failure reported and exit code 1.
C2_AnyStorageFailure ==
    FailedRequest(StorageKinds) =>
        /\ file_url = None
        /\ ~NotifySent
        /\ Exited => (UploadFailureReported /\ exit_code = DROPBOX_ERROR_CODE)

\* C2, amended: a non-2xx response to the upload or the share request leaves no
\* download URL, is reported, aborts the run with exit code 1, and no notify
\* request is sent.
C2_UploadOrShareFailure ==
    FailedRequest({"upload", "share"}) =>
        /\ file_url = None
        /\ ~NotifySent
        /\ UploadFailureReported
        /\ pc = "aborted"
        /\ exit_code = DROPBOX_ERROR_CODE

\* the share request failed after a successful delete and upload
C2_Witness ==
    /\ Len(requests) = 3
    /\ requests[1].status = 200
    /\ requests[2].status = 200
    /\ requests[3].kind = "share"
    /\ requests[3].status = 500
    /\ pc = "aborted"

\* C3: a changelog file that is missing when CHANGELOG runs ends the process
\* with exit code 3, and no request follows the three storage requests.
C3_MissingChangelogExit3 ==
    (change_log.state = "missing" /\ Exited) =>
        /\ exit_code = CHANGES_ERROR_CODE
        /\ Len(requests) = 3

UnknownShape(jd) ==
    /\ jd.top = "list"
    /\ Len(jd.items) > 0
    /\ Len(jd.items[1].apkInfo) = 0
    /\ Len(jd.items[1].apkData) = 0

\* C4: a manifest of none of the three shapes, or one that cannot be parsed,
\* yields (None, None) and exit code 4 before any request is sent.
C4_BadManifestExit4 ==
    ((json_data.top = "bad" \/ UnknownShape(json_data)) /\ Exited) =>
        /\ app_version = None
        /\ app_file = None
        /\ exit_code = OUTPUT_FILE_PARSING_ERROR
        /\ requests = <<>>

StageFailed(stage) ==
    /\ Len(started) > 0
    /\ LastStage = stage
    /\ ~Succeeded(stage)

\* C10: the exit status names the outcome: 0 only after all six stages
\* succeeded, 1 only after a failed upload stage, 3 only after a failed
\* changelog extraction, 4 only after a failed manifest parse, 5 only after a
\* failed notification; never 2.
C10_ExitStatusNamesOutcome ==
    Exited =>
        /\ exit_code = EXIT_SUCCESS =>
              \A i \in DOMAIN StageOrder : Succeeded(StageOrder[i])
        /\ exit_code = DROPBOX_ERROR_CODE => StageFailed("UPLOAD")
        /\ exit_code = CHANGES_ERROR_CODE => StageFailed("CHANGELOG")
        /\ exit_code = OUTPUT_FILE_PARSING_ERROR => StageFailed("LOCATE")
        /\ exit_code = TELEGRAM_ERROR_CODE => StageFailed("NOTIFY")
        /\ exit_code # TEMPLATE_ERROR_CODE

C9_Inv ==
    LET storage == StorageRequests
        path    == <<"/">> \o options.dropbox_folder \o <<"/">> \o target_app_file
    IN  /\ IsPrefix([i \in 1..Len(storage) |-> storage[i].kind],
                    <<"delete", "upload", "share">>)
        /\ \A i \in 1..Len(storage) : storage[i].target = path
        /\ Len(storage) = 3 => storage[2].status = codes_ok
        /\ file_url # None => Len(storage) = 3 /\ storage[3].status = codes_ok

\* the step issues exactly one request, of this kind
Issues(kind) ==
    /\ Len(requests') = Len(requests) + 1
    /\ IsPrefix(requests, requests')
    /\ requests'[Len(requests')].kind = kind

C9_Step ==
    /\ pc = "delete" => Issues("delete") /\ pc' = "upload"
    /\ pc = "upload" => Issues("upload") \/ (requests' = requests /\ pc' = "aborted")
    /\ pc = "share" => Issues("share")
    /\ pc \notin {"delete", "upload", "share"} =>
          StorageRequests' = StorageRequests

NameChars == {"A", "a", " ", "\t"}
VersionChars == {"1", ".", "B", " "}

RenameNames == StrUpTo(NameChars, MaxNameLen) \cup {WowApp}
RenameVersions == StrUpTo(VersionChars, MaxVersionLen) \cup {V100}

InitRename ==
    /\ pc = "rename"
    /\ options \in [app_name : RenameNames, release_dir : {ReleaseDir},
                    dropbox_folder : {DropboxFolder}]
    /\ app_version \in RenameVersions
    /\ json_data = ListManifest(<<Item(<<Apk(app_version, ApkFile)>>, <<>>)>>)
    /\ app_file = os_path_join(ReleaseDir, ApkFile)
    /\ target_app_file = None
    /\ requests = <<>>
    /\ share_url = None
    /\ file_url = None
    /\ change_log = UnreadFile
    /\ latest_changes = None
    /\ template = UnreadFile
    /\ message = None
    /\ started = <<"LOCATE">>
    /\ stdout = <<>>
    /\ exit_code = Running

SpecRename == InitRename /\ [][Rename]_vars

Whitespace == {" ", "\t", "\n", "\r"}

Renamed == pc = "delete" /\ target_app_file # None

\* lower-case(name) + "_" + version with "." as "_" + ".apk", before any removal
RenameJoined(name, version) ==
    LET n == Len(name)
        v == Len(version)
    IN  [i \in 1..(n + v + 5) |->
            IF i <= n THEN LowerChar(name[i])
            ELSE IF i = n + 1 THEN "_"
            ELSE IF i <= n + 1 + v
                 THEN (IF version[i - n - 1] = "." THEN "_" ELSE version[i - n - 1])
            ELSE <<".", "a", "p", "k">>[i - n - 1 - v]]

\* C6 as stated: the result is the joined name with all whitespace removed; it
\* holds no upper-case letter and no whitespace character of any kind.
C6_NoWhitespaceNoUpper ==
    Renamed =>
        /\ target_app_file =
              SelectSeq(RenameJoined(options.app_name, app_version),
                        LAMBDA c : c \notin Whitespace)
        /\ \A i \in DOMAIN target_app_file :
              ~IsUpper(target_app_file[i]) /\ target_app_file[i] \notin Whitespace

\* C6, amended: the result is the joined name with every space character " "
\* removed; it holds no space, and no upper-case letter except those of the
\* version; ("WowApp", "1.0.0") gives "wowapp_1_0_0.apk".
C6_NoSpaceLowerName ==
    Renamed =>
        /\ target_app_file =
              SelectSeq(RenameJoined(options.app_name, app_version),
                        LAMBDA c : c # " ")
        /\ \A i \in DOMAIN target_app_file :
              /\ target_app_file[i] # " "
              /\ IsUpper(target_app_file[i]) =>
                    \E k \in DOMAIN app_version : app_version[k] = target_app_file[i]
        /\ (options.app_name = WowApp /\ app_version = V100) =>
              target_app_file = <<"w", "o", "w", "a", "p", "p", "_", "1", "_", "0", "_", "0", ".", "a", "p", "k">>

\* a name with a space and a tab, a version with an upper-case letter
C6_Witness ==
    /\ Renamed
    /\ options.app_name = <<"A", " ", "\t">>
    /\ app_version = <<"1", ".", "B">>
    /\ target_app_file = <<"a", "\t", "_", "1", "_", "B", ".", "a", "p", "k">>

(***************************************************************************)
(* get_changes on enumerated changelog files: the run is at the call,      *)
(* after a successful upload.                                              *)
(***************************************************************************)
ChangeChars == {"#", "\n", "a"}

AllChangelogs ==
    {ReadFile(text) : text \in StrUpTo(ChangeChars, MaxChangeLen) \cup {ExampleChangelog}}

ExampleShareUrl == <<"h", "/", "s", "/", "a", "?", "d", "l", "=", "0">>
ExampleTarget == <<"w", "o", "w", "a", "p", "p", "_", "1", "_", "0", "_", "0", ".", "a", "p", "k">>

InitChanges ==
    /\ pc = "changelog"
    /\ options = [app_name |-> WowApp, release_dir |-> ReleaseDir,
                  dropbox_folder |-> DropboxFolder]
    /\ json_data = ListManifest(<<Item(<<Apk(V100, ApkFile)>>, <<>>)>>)
    /\ app_version = V100
    /\ app_file = os_path_join(ReleaseDir, ApkFile)
    /\ target_app_file = ExampleTarget
    /\ \E status \in Statuses :
         requests = <<Request("delete", dropbox_path(DropboxFolder, ExampleTarget), status),
                      Request("upload", dropbox_path(DropboxFolder, ExampleTarget), codes_ok),
                      Request("share", dropbox_path(DropboxFolder, ExampleTarget), codes_ok)>>
    /\ share_url = ExampleShareUrl
    /\ file_url = rewrite_share_url(ExampleShareUrl)
    /\ change_log = UnreadFile
    /\ latest_changes = None
    /\ template = UnreadFile
    /\ message = None
    /\ started = <<"LOCATE", "RENAME", "UPLOAD">>
    /\ stdout = <<>>
    /\ exit_code = Running

SpecChanges == InitChanges /\ [][Changelog(AllChangelogs)]_vars

Extracted == change_log.state = "read" /\ latest_changes # None

\* the lines of a text, each with its line break if it has one
LinesOf(text) ==
    LET parts == str_split(text, <<"\n">>) IN
    [i \in 1..Len(parts) |-> IF i < Len(parts) THEN parts[i] \o <<"\n">> ELSE parts[i]]

RECURSIVE Concat(_)
Concat(seqs) == IF Len(seqs) = 0 THEN <<>> ELSE seqs[1] \o Concat(Tail(seqs))

IsHashLine(line) == Len(line) > 0 /\ line[1] = "#"
IsTitleLine(line) == IsHashLine(line) /\ ~StartsAt(line, 1, <<"#", "#">>)
IsHeadingLine(line) == StartsAt(line, 1, <<"#", "#">>)

NoHashLine(text) == \A i \in DOMAIN LinesOf(text) : ~IsHashLine(LinesOf(text)[i])

\* an optional level-1 title line, then level-2-headed sections of content lines
IsSectioned(text) ==
    LET lines == LinesOf(text)
        first == IF IsTitleLine(lines[1]) THEN 2 ELSE 1
    IN  /\ Len(lines) >= first
        /\ IsHeadingLine(lines[first])
        /\ \A i \in first..Len(lines) : IsHeadingLine(lines[i]) \/ ~IsHashLine(lines[i])

\* the content lines of the first section of a sectioned changelog
FirstSection(text) ==
    LET lines == LinesOf(text)
        first == IF IsTitleLine(lines[1]) THEN 2 ELSE 1
        next  == IF \E i \in (first + 1)..Len(lines) : IsHeadingLine(lines[i])
                 THEN CHOOSE i \in (first + 1)..Len(lines) :
                        /\ IsHeadingLine(lines[i])
                        /\ \A k \in (first + 1)..(i - 1) : ~IsHeadingLine(lines[k])
                 ELSE Len(lines) + 1
    IN  Concat(SubSeq(lines, first + 1, next - 1))

\* C5 as stated: the result is the body of the first section, title and
\* heading lines stripped; "Fix A\nFix B\n" for the example changelog.
C5_FirstSectionBody ==
    Extracted =>
        /\ change_log.text = ExampleChangelog =>
              latest_changes = <<"F", "i", "x", " ", "A", "\n", "F", "i", "x", " ", "B", "\n">>
        /\ IsSectioned(change_log.text) =>
              latest_changes = FirstSection(change_log.text)
        /\ NoHashLine(latest_changes)

\* the text before the first "##" (all of it when there is none)
BeforeFirstDelimiter(text) ==
    IF \E i \in 1..Len(text) : StartsAt(text, i, <<"#", "#">>)
    THEN LET i == CHOOSE i \in 1..Len(text) :
                    /\ StartsAt(text, i, <<"#", "#">>)
                    /\ \A k \in 1..(i - 1) : ~StartsAt(text, k, <<"#", "#">>)
         IN  SubSeq(text, 1, i - 1)
    ELSE text

\* C5, amended: the result is the text before the first "##", less its last
\* character, with every line that begins with "#" removed; no line of it
\* begins with "#"; for the example changelog it is the empty string.
C5_TextBeforeFirstDelimiter ==
    Extracted =>
        LET before == BeforeFirstDelimiter(change_log.text)
            cut    == SubSeq(before, 1, Len(before) - 1)
        IN  /\ latest_changes =
                  Concat(SelectSeq(LinesOf(cut), LAMBDA line : ~IsHashLine(line)))
            /\ NoHashLine(latest_changes)
            /\ change_log.text = ExampleChangelog => latest_changes = <<>>

\* the example changelog was read and nothing was extracted from it
C5_Witness ==
    /\ pc = "render"
    /\ change_log.text = ExampleChangelog
    /\ latest_changes = <<>>

(***************************************************************************)
(* The share-link rewrite on enumerated share URLs: the run is at the      *)
(* share request, the upload having succeeded.  A URL is a path and up to  *)
(* MaxParams query parameters.                                             *)
(***************************************************************************)
UrlPaths == {<<"h", "/", "s", "/", "a">>, <<"h", "/", "d", "l", "=", "a">>}
UrlParams == {<<"d", "l", "=", "0">>, <<"d", "l", "=", "1">>, <<"s", "t", "=", "x">>, <<"x", "d", "l", "=", "y">>}

RECURSIVE JoinParams(_)
JoinParams(params) ==
    IF Len(params) = 0 THEN <<>>
    ELSE IF Len(params) = 1 THEN params[1]
    ELSE params[1] \o <<"&">> \o JoinParams(Tail(params))

Url(path, params) ==
    IF Len(params) = 0 THEN path ELSE path \o <<"?">> \o JoinParams(params)

AllShareUrls ==
    {Url(path, params) : path \in UrlPaths, params \in StrUpTo(UrlParams, MaxParams)}

InitShare ==
    /\ pc = "share"
    /\ options = [app_name |-> WowApp, release_dir |-> ReleaseDir,
                  dropbox_folder |-> DropboxFolder]
    /\ json_data = ListManifest(<<Item(<<Apk(V100, ApkFile)>>, <<>>)>>)
    /\ app_version = V100
    /\ app_file = os_path_join(ReleaseDir, ApkFile)
    /\ target_app_file = ExampleTarget
    /\ \E status \in Statuses :
         requests = <<Request("delete", dropbox_path(DropboxFolder, ExampleTarget), status),
                      Request("upload", dropbox_path(DropboxFolder, ExampleTarget), codes_ok)>>
    /\ share_url = None
    /\ file_url = None
    /\ change_log = UnreadFile
    /\ latest_changes = None
    /\ template = UnreadFile
    /\ message = None
    /\ started = <<"LOCATE", "RENAME", "UPLOAD">>
    /\ stdout = <<>>
    /\ exit_code = Running

SpecShare == InitShare /\ [][DropboxShare(AllShareUrls)]_vars

\* the part of a URL before its "?" and the parameters after it
PathOf(url) == SubSeq(url, 1, str_find(url, <<"?">>, 1) - 1)
ParamsOf(url) ==
    LET i == str_find(url, <<"?">>, 1) IN
    IF i > Len(url) THEN <<>> ELSE str_split(SubSeq(url, i + 1, Len(url)), <<"&">>)

IsDlParam(param) == StartsAt(param, 1, <<"d", "l", "=">>)

\* C7: the rewrite changes only a dl=... query suffix: a last parameter dl=...
\* becomes raw=1, and the path and every other parameter (one that follows a
\* dl=..., one that only contains "dl=") stay as the provider returned them.
C7_OnlyDlSuffixRewritten ==
    (share_url # None /\ file_url # None) =>
        LET old == ParamsOf(share_url)
            new == ParamsOf(file_url)
        IN  /\ PathOf(file_url) = PathOf(share_url)
            /\ Len(new) = Len(old)
            /\ \A i \in 1..Len(old) :
                  /\ ~IsDlParam(old[i]) => new[i] = old[i]
                  /\ (i = Len(old) /\ IsDlParam(old[i])) =>
                        new[i] = <<"r", "a", "w", "=", "1">>

(***************************************************************************)
(* get_app on enumerated manifests and release directories.                *)
(***************************************************************************)
FileChars == {"a", "_", "-", "/"}
V200 == <<"2", ".", "0">>
OtherFile == <<"/", "b", "/", "a", "p", "p", ".", "a", "p", "k">>

ReleaseDirs == {ReleaseDir, <<"o", "u", "t", "/">>, <<>>}

OutputFiles == StrUpTo(FileChars, MaxFileLen) \cup {ElementsFile}

ApkRecords == {<<>>, <<Apk(V100, ApkFile)>>, <<Apk(V200, OtherFile)>>}

AllManifests ==
    {BadManifest, DictManifest(FALSE, <<>>), DictManifest(TRUE, <<>>), ListManifest(<<>>)}
    \cup {DictManifest(TRUE, <<f>>) : f \in OutputFiles}
    \cup {DictManifest(TRUE, <<ElementsFile, f>>) : f \in {ApkFile}}
    \cup {ListManifest(<<Item(info, data)>>) : info \in ApkRecords, data \in ApkRecords}
    \cup {ListManifest(<<Item(info, <<>>), Item(<<>>, info)>>) : info \in ApkRecords}

InitLocate ==
    /\ pc = "locate"
    /\ options \in [app_name : {WowApp}, release_dir : ReleaseDirs,
                    dropbox_folder : {DropboxFolder}]
    /\ json_data = Unread
    /\ app_version = None
    /\ app_file = None
    /\ target_app_file = None
    /\ requests = <<>>
    /\ share_url = None
    /\ file_url = None
    /\ change_log = UnreadFile
    /\ latest_changes = None
    /\ template = UnreadFile
    /\ message = None
    /\ started = <<>>
    /\ stdout = <<>>
    /\ exit_code = Running

SpecLocate == InitLocate /\ [][Locate(AllManifests)]_vars

\* token is the second "_"-delimited token of file
IsSecondToken(file, token) ==
    \E i \in 1..Len(file), j \in 2..(Len(file) + 1) :
        /\ i < j
        /\ file[i] = "_"
        /\ j = Len(file) + 1 \/ file[j] = "_"
        /\ \A k \in 1..(j - 1) : k # i => file[k] # "_"
        /\ token = SubSeq(file, i + 1, j - 1)

\* version is token with every "-" replaced by "."
IsDashToDot(token, version) ==
    /\ Len(version) = Len(token)
    /\ \A k \in 1..Len(token) :
          version[k] = (IF token[k] = "-" THEN "." ELSE token[k])

HasSecondToken(file) == \E i \in 1..Len(file) : file[i] = "_"

\* C8: 'elements' first, then 'apkInfo', then 'apkData', and only one of them:
\* an 'elements' manifest gives the second "_"-token of the first outputFile
\* with "-" as "." ("1.2.3.beta" for "app_1.2.3-beta_release.apk"), the other
\* two give the nested versionName; the path is os.path.join of the release
\* directory and that outputFile.
C8_ShapePriority ==
    LET jd  == json_data
        dir == options.release_dir
    IN  /\ (jd.top = "dict" /\ jd.has_elements /\ Len(jd.elements) > 0
                /\ HasSecondToken(jd.elements[1])) =>
              /\ \E token \in {SubSeq(jd.elements[1], a, b) :
                                 a \in 1..(Len(jd.elements[1]) + 1),
                                 b \in 0..Len(jd.elements[1])} :
                    /\ IsSecondToken(jd.elements[1], token)
                    /\ IsDashToDot(token, app_version)
              /\ app_file = os_path_join(dir, jd.elements[1])
              /\ jd.elements[1] = ElementsFile =>
                    app_version = <<"1", ".", "2", ".", "3", ".", "b", "e", "t", "a">>
        /\ (jd.top = "list" /\ Len(jd.items) > 0 /\ Len(jd.items[1].apkInfo) > 0) =>
              /\ app_version = jd.items[1].apkInfo[1].versionName
              /\ app_file = os_path_join(dir, jd.items[1].apkInfo[1].outputFile)
        /\ (jd.top = "list" /\ Len(jd.items) > 0 /\ Len(jd.items[1].apkInfo) = 0
                /\ Len(jd.items[1].apkData) > 0) =>
              /\ app_version = jd.items[1].apkData[1].versionName
              /\ app_file = os_path_join(dir, jd.items[1].apkData[1].outputFile)

\* the first item holds both an apkInfo and an apkData, and apkInfo was used
C8_Witness ==
    /\ pc = "rename"
    /\ json_data = ListManifest(<<Item(<<Apk(V100, ApkFile)>>, <<Apk(V200, OtherFile)>>)>>)
    /\ app_version = V100
    /\ app_file = <<"o", "u", "t", "/", "a", "p", "p", "-", "r", "e", "l", "e", "a", "s", "e", ".", "a", "p", "k">>

====
